---- MODULE Spec2Model ----
(***************************************************************************)
(* Model of packages/website/sidebars.js: the helper                       *)
(* createLibraryReferenceStructure, the evaluation of the `sidebars`       *)
(* object literal and its export through module.exports.                   *)
(*                                                                         *)
(* JavaScript values are modelled as tagged records.  Arrays are mutable   *)
(* reference objects, so they live in `heap` (address = index) and an      *)
(* object's `items` field holds the address of its array.                  *)
(***************************************************************************)
EXTENDS Integers, Sequences, FiniteSets, TLC

VARIABLES
  pc,            \* position of the module's top-level evaluation
  heap,          \* the arrays allocated so far: address -> elements
  pending,       \* results of the helper calls made while the literal is evaluated
  sidebars,      \* the module-level `const sidebars`
  moduleExports, \* module.exports
  calls,         \* history: every call of the helper, its arguments and outcome
  consumerRef,   \* what a consumer obtained from require()
  writes         \* number of writes a consumer made through consumerRef

vars == <<pc, heap, pending, sidebars, moduleExports, calls, consumerRef, writes>>

-----------------------------------------------------------------------------
(* Bounds *)

MaxCalls == 1      \* calls of the helper besides the two the module makes
MaxExtraLen == 2   \* length of the list the caller owns from the start
MaxWrites == 1     \* writes of a consumer through the exported reference

-----------------------------------------------------------------------------
(* JavaScript values *)

Undefined == [typeof |-> "undefined"]
Null == [typeof |-> "null"]
Str(s) == [typeof |-> "string", value |-> s]
ArrayRef(a) == [typeof |-> "array", ref |-> a]

\* { type: "autogenerated", dirName: d }
AutogeneratedMarkerMisspelt(d) == [typeof |-> "object", type |-> "autogenerated", dirname |-> d]
AutogeneratedMarker(d) == [typeof |-> "object", type |-> "autogenerated", dirName |-> d]

\* an array literal [e1, ..., en]: a fresh array
ArrayLiteral(h, elems) == [heap |-> Append(h, elems), ref |-> Len(h) + 1]

-----------------------------------------------------------------------------
(* createLibraryReferenceStructure, sidebars.js lines 9-25 *)

\* `standard-library/${libName}/reference/index`
ReferenceLinkId(libName) == "standard-library/" \o libName \o "/reference/index"

ReferenceDirNameParent(libName) == "standard-library/" \o libName
\* `standard-library/${libName}/reference`
ReferenceDirName(libName) == "standard-library/" \o libName \o "/reference"

IsNullishDefaultOnly(v) == v.typeof = "undefined"
\* the test of `extra ?? []`: the right operand is used for undefined and null
IsNullish(v) == v.typeof \in {"undefined", "null"}

\* the spread `...v` inside an array literal: the elements v's iterator yields;
\* an array yields its elements, a string its characters, anything else is
\* not iterable and the spread throws a TypeError
Iterate(h, v) ==
  IF v.typeof = "array" THEN [ok |-> TRUE, elems |-> h[v.ref]]
  ELSE IF v.typeof = "string"
    THEN [ok |-> TRUE, elems |-> [i \in 1..Len(v.value) |-> Str(SubSeq(v.value, i, i))]]
  ELSE [ok |-> FALSE, elems |-> <<>>]

ReferenceItemsExtraFirst(marker, elems) == elems \o <<marker>>
\* the elements of [ marker, ...spread ]
ReferenceItems(marker, elems) == <<marker>> \o elems

ItemsArrayInPlace(h, marker, operand, elems) ==
  IF operand.typeof = "array"
    THEN [heap |-> [h EXCEPT ![operand.ref] = ReferenceItems(marker, @)], ref |-> operand.ref]
    ELSE ArrayLiteral(h, ReferenceItems(marker, elems))
\* items: [ marker, ...operand ] is an array literal: a fresh array, the
\* operand is only read
ItemsArray(h, marker, operand, elems) == ArrayLiteral(h, ReferenceItems(marker, elems))

createLibraryReferenceStructure(h, libName, extra) ==
  LET id == ReferenceLinkId(libName)
      marker == AutogeneratedMarker(ReferenceDirName(libName))
      nullish == IsNullish(extra)
      empty == ArrayLiteral(h, <<>>)     \* the [] of `extra ?? []`
      h1 == IF nullish THEN empty.heap ELSE h
      operand == IF nullish THEN ArrayRef(empty.ref) ELSE extra
      spread == Iterate(h1, operand)
      items == ItemsArray(h1, marker, operand, spread.elems)
  IN IF ~spread.ok
       THEN [heap |-> h1, outcome |-> "TypeError", value |-> Undefined]
       ELSE [heap |-> items.heap, outcome |-> "return",
             value |-> [typeof |-> "object", type |-> "category", label |-> "Reference",
                        link |-> [type |-> "doc", id |-> id],
                        items |-> items.ref]]

\* one entry of the call history
CallRecord(caller, h, libName, extra, r) ==
  [caller |-> caller, libName |-> libName, extra |-> extra,
   before |-> IF extra.typeof = "array" THEN h[extra.ref] ELSE <<>>,
   outcome |-> r.outcome, value |-> r.value]

-----------------------------------------------------------------------------
(* The object literal of `const sidebars`, sidebars.js lines 28-145.         *)
(* An expression is either an already evaluated value or a category literal *)
(* whose items are expressions again.                                       *)

Value(v) == [expr |-> "value", value |-> v]
Leaf(s) == Value(Str(s))
Category(label, items) == [expr |-> "category", label |-> label, items |-> items]
CategoryWithLink(label, link, items) ==
  [expr |-> "categoryWithLink", label |-> label, link |-> link, items |-> items]
CollapsedCategoryWithLink(label, link, items) ==
  [expr |-> "collapsedCategoryWithLink", label |-> label, link |-> link, items |-> items]

RECURSIVE Evaluate(_, _), EvaluateElements(_, _)
\* evaluates the element expressions of an array literal from left to right:
\* the leftmost element that is still a literal is evaluated and replaced by
\* its value, until every element is a value
EvaluateElements(h, exprs) ==
  LET literals == {i \in DOMAIN exprs : exprs[i].expr # "value"}
  IN IF literals = {} THEN [heap |-> h, elems |-> [i \in DOMAIN exprs |-> exprs[i].value]]
     ELSE LET k == CHOOSE i \in literals : \A j \in literals : i <= j
              first == Evaluate(h, exprs[k])
          IN EvaluateElements(first.heap, [exprs EXCEPT ![k] = Value(first.value)])
\* evaluates one expression: a category literal allocates its items array
Evaluate(h, e) ==
  IF e.expr = "value" THEN [heap |-> h, value |-> e.value]
  ELSE LET els == EvaluateElements(h, e.items)
           arr == ArrayLiteral(els.heap, els.elems)
       IN [heap |-> arr.heap,
           value |-> CASE e.expr = "category" ->
                            [typeof |-> "object", type |-> "category", label |-> e.label,
                             items |-> arr.ref]
                       [] e.expr = "categoryWithLink" ->
                            [typeof |-> "object", type |-> "category", label |-> e.label,
                             link |-> e.link, items |-> arr.ref]
                       [] e.expr = "collapsedCategoryWithLink" ->
                            [typeof |-> "object", type |-> "category", label |-> e.label,
                             collapsed |-> TRUE, link |-> e.link, items |-> arr.ref]]

ConfigurationCategory ==
  Category("Configuration",
    <<Leaf("introduction/configuration/configuration"),
      Leaf("introduction/configuration/tracing")>>)

IntroductionCategory ==
  Category("Introduction",
    <<Leaf("introduction/introduction"),
      Leaf("introduction/installation"),
      Leaf("introduction/usage"),
      Leaf("introduction/style-guide"),
      Leaf("introduction/formatter"),
      ConfigurationCategory,
      Leaf("introduction/releases"),
      Leaf("introduction/faq")>>)

GettingStartedCategory ==
  Category("Getting Started",
    <<Leaf("getting-started/getting-started"),
      Leaf("getting-started/cadl-for-openapi-dev")>>)

LanguageBasicsCategory ==
  Category("Language Basics",
    <<Leaf("language-basics/overview"),
      Leaf("language-basics/imports"),
      Leaf("language-basics/namespaces"),
      Leaf("language-basics/decorators"),
      Leaf("language-basics/scalars"),
      Leaf("language-basics/models"),
      Leaf("language-basics/operations"),
      Leaf("language-basics/interfaces"),
      Leaf("language-basics/templates"),
      Leaf("language-basics/enums"),
      Leaf("language-basics/unions"),
      Leaf("language-basics/intersections"),
      Leaf("language-basics/type-literals"),
      Leaf("language-basics/aliases"),
      Leaf("language-basics/type-relations")>>)

HttpAndRestCategory(restReference) ==
  Category("Http And Rest",
    <<Leaf("standard-library/rest/overview"),
      Value(restReference),
      Leaf("standard-library/rest/operations"),
      Leaf("standard-library/rest/authentication"),
      Leaf("standard-library/rest/resource-routing")>>)

OpenAPICategoryCopied(openapiReference) ==
  Category("Http And Rest",
    <<Leaf("standard-library/openapi/overview"),
      Value(openapiReference),
      Leaf("standard-library/openapi/openapi")>>)
OpenAPICategory(openapiReference) ==
  Category("OpenAPI",
    <<Leaf("standard-library/openapi/overview"),
      Value(openapiReference),
      Leaf("standard-library/openapi/openapi")>>)

StandardLibraryCategory(restReference, openapiReference) ==
  Category("Cadl Standard Library",
    <<Leaf("standard-library/built-in-types"),
      Leaf("standard-library/built-in-decorators"),
      Leaf("standard-library/projected-names"),
      HttpAndRestCategory(restReference),
      OpenAPICategory(openapiReference)>>)

WritingLibrariesCategory ==
  Category("Writing Cadl Libraries",
    <<Leaf("extending-cadl/basics"),
      Leaf("extending-cadl/create-decorators"),
      Leaf("extending-cadl/linters"),
      Leaf("extending-cadl/emitters"),
      Leaf("extending-cadl/writing-scaffolding-template")>>)

CompilerReferenceCategory ==
  CategoryWithLink("Compiler Reference",
    [type |-> "doc", id |-> "compiler/reference/index"],
    <<Value(AutogeneratedMarker("compiler"))>>)

ReleaseNotesCategory ==
  CollapsedCategoryWithLink("Release Notes",
    [type |-> "generated-index", title |-> "Release Notes", slug |-> "/release-notes"],
    <<Value(AutogeneratedMarker("release-notes"))>>)

\* the elements of docsSidebar: [ ... ]
DocsSidebarItems(restReference, openapiReference) ==
  <<IntroductionCategory,
    GettingStartedCategory,
    LanguageBasicsCategory,
    StandardLibraryCategory(restReference, openapiReference),
    WritingLibrariesCategory,
    CompilerReferenceCategory,
    ReleaseNotesCategory>>

OpenapiExtraListedTwice == <<Str("standard-library/openapi/openapi")>>
\* the argument of the call on line 97
OpenapiExtra == <<Str("standard-library/openapi/diagnostics")>>

-----------------------------------------------------------------------------
(* Reading the tree *)

IsObject(v) == v.typeof = "object"
HasItems(v) == IsObject(v) /\ "items" \in DOMAIN v

RECURSIVE ReachableArrays(_, _)
\* the addresses of the array a and of every items array below it
ReachableArrays(h, a) ==
  {a} \cup UNION {ReachableArrays(h, h[a][i].items) :
                    i \in {j \in DOMAIN h[a] : HasItems(h[a][j])}}

\* the arrays of the tree rooted at the object root ({ docsSidebar: [...] })
TreeArrays(h, root) ==
  IF root.typeof = "object" THEN ReachableArrays(h, root.docsSidebar) ELSE {}

-----------------------------------------------------------------------------
(* Inputs of the calls made on the helper outside the module's two calls *)

LibNames == {"rest", "openapi", ""}
CallerNodes == {Str("standard-library/openapi/diagnostics"), Str("standard-library/rest/operations")}
CallerLists == UNION {[1..n -> CallerNodes] : n \in 0..MaxExtraLen}
\* the arrays a caller can pass: its own list (allocated first), the
\* docsSidebar array and the items array of every descriptor returned so far
CallerArrays ==
  {1} \cup (IF sidebars.typeof = "object" THEN {sidebars.docsSidebar} ELSE {})
      \cup {calls[i].value.items : i \in {j \in DOMAIN calls : calls[j].outcome = "return"}}
\* the values passed as `extra`: nothing, null, an existing array, and two
\* values outside the declared type any[] (a string, a plain object)
ExtraArguments ==
  {Undefined, Null, Str("ab"), AutogeneratedMarker("compiler")}
    \cup {ArrayRef(a) : a \in CallerArrays}

HelperCalls == Cardinality({i \in DOMAIN calls : calls[i].caller = "caller"})

-----------------------------------------------------------------------------
(* Actions *)

Init ==
  /\ pc = "start"
  /\ \E e \in CallerLists : heap = <<e>>
  /\ pending = <<>>
  /\ sidebars = Undefined
  /\ moduleExports = Undefined
  /\ calls = <<>>
  /\ consumerRef = Undefined
  /\ writes = 0

\* line 86: createLibraryReferenceStructure("rest")
EvalRestReference ==
  /\ pc = "start"
  /\ LET r == createLibraryReferenceStructure(heap, "rest", Undefined)
     IN /\ heap' = r.heap
        /\ calls' = Append(calls, CallRecord("module", heap, "rest", Undefined, r))
        /\ pending' = IF r.outcome = "return" THEN Append(pending, r.value) ELSE pending
        /\ pc' = IF r.outcome = "return" THEN "rest" ELSE "threw"
  /\ UNCHANGED <<sidebars, moduleExports, consumerRef, writes>>

\* line 97: createLibraryReferenceStructure("openapi", ["standard-library/openapi/diagnostics"])
EvalOpenapiReference ==
  /\ pc = "rest"
  /\ LET arg == ArrayLiteral(heap, OpenapiExtra)
         r == createLibraryReferenceStructure(arg.heap, "openapi", ArrayRef(arg.ref))
     IN /\ heap' = r.heap
        /\ calls' = Append(calls, CallRecord("module", arg.heap, "openapi", ArrayRef(arg.ref), r))
        /\ pending' = IF r.outcome = "return" THEN Append(pending, r.value) ELSE pending
        /\ pc' = IF r.outcome = "return" THEN "openapi" ELSE "threw"
  /\ UNCHANGED <<sidebars, moduleExports, consumerRef, writes>>

\* lines 28-145: the rest of the literal is evaluated and bound to `sidebars`
BindSidebars ==
  /\ pc = "openapi"
  /\ LET els == EvaluateElements(heap, DocsSidebarItems(pending[1], pending[2]))
         arr == ArrayLiteral(els.heap, els.elems)
     IN /\ heap' = arr.heap
        /\ sidebars' = [typeof |-> "object", docsSidebar |-> arr.ref]
  /\ pc' = "bound"
  /\ UNCHANGED <<pending, moduleExports, calls, consumerRef, writes>>

\* line 147: module.exports = sidebars
Export ==
  /\ pc = "bound"
  /\ moduleExports' = sidebars
  /\ pc' = "exported"
  /\ UNCHANGED <<heap, pending, sidebars, calls, consumerRef, writes>>

\* a call of the helper with inputs drawn from the bounded sets; the module's
\* top-level code runs to completion first
CallHelper(libName, extra) ==
  /\ pc = "exported"
  /\ HelperCalls < MaxCalls
  /\ LET r == createLibraryReferenceStructure(heap, libName, extra)
     IN /\ heap' = r.heap
        /\ calls' = Append(calls, CallRecord("caller", heap, libName, extra, r))
  /\ UNCHANGED <<pc, pending, sidebars, moduleExports, consumerRef, writes>>

\* a consumer requires the module and receives module.exports itself
ConsumerRequire ==
  /\ pc = "exported"
  /\ consumerRef = Undefined
  /\ consumerRef' = moduleExports
  /\ UNCHANGED <<pc, heap, pending, sidebars, moduleExports, calls, writes>>

\* the exported object is not frozen: a consumer can push onto any array of it
ConsumerWrite(a, v) ==
  /\ writes < MaxWrites
  /\ a \in TreeArrays(heap, consumerRef)
  /\ heap' = [heap EXCEPT ![a] = Append(@, v)]
  /\ writes' = writes + 1
  /\ UNCHANGED <<pc, pending, sidebars, moduleExports, calls, consumerRef>>

Next ==
  \/ EvalRestReference
  \/ EvalOpenapiReference
  \/ BindSidebars
  \/ Export
  \/ \E n \in LibNames : \E e \in ExtraArguments : CallHelper(n, e)

Spec == Init /\ [][Next]_vars

NextConsumer ==
  \/ EvalRestReference
  \/ EvalOpenapiReference
  \/ BindSidebars
  \/ Export
  \/ \E n \in LibNames : \E e \in ExtraArguments : CallHelper(n, e)
  \/ ConsumerRequire
  \/ \E a \in DOMAIN heap : ConsumerWrite(a, Str("extending-cadl/basics"))

SpecConsumer == Init /\ [][NextConsumer]_vars

-----------------------------------------------------------------------------
(* Properties *)

Returned(c) == c.outcome = "return"
\* the extra argument is a list or absent (omitted, undefined or null)
ListOrAbsent(c) == c.extra.typeof \in {"array", "undefined", "null"}
StartsWith(s, p) == Len(s) >= Len(p) /\ SubSeq(s, 1, Len(p)) = p

\* C1: for every library name n and every extra list e (possibly absent) the
\* helper returns a category labelled "Reference" whose link is the doc
\* "standard-library/" + n + "/reference/index" and whose items are the
\* autogenerated marker of "standard-library/" + n + "/reference" followed by
\* exactly the elements of e in order (nothing when e is absent): 1 + |e| items.
C1_ReferenceStructure ==
  \A i \in DOMAIN calls :
    LET c == calls[i] IN
    ListOrAbsent(c) =>
      /\ Returned(c)
      /\ c.value.type = "category"
      /\ c.value.label = "Reference"
      /\ c.value.link = [type |-> "doc", id |-> "standard-library/" \o c.libName \o "/reference/index"]
      /\ heap[c.value.items] =
           <<[typeof |-> "object", type |-> "autogenerated",
              dirName |-> "standard-library/" \o c.libName \o "/reference"]>> \o c.before
      /\ Len(heap[c.value.items]) = 1 + Len(c.before)

\* a call with a list of two elements and a call without the argument returned
C1_Witness ==
  /\ \E i \in DOMAIN calls :
       calls[i].extra.typeof = "array" /\ Len(calls[i].before) = 2 /\ Returned(calls[i])
  /\ \E i \in DOMAIN calls : calls[i].extra.typeof = "undefined" /\ Returned(calls[i])

\* C2: the helper has no error outcome: with a list of any length, an empty
\* list, or an omitted, undefined or null extra argument, every call returns.
C2_NoErrorOutcome ==
  \A i \in DOMAIN calls : ListOrAbsent(calls[i]) => calls[i].outcome = "return"

\* calls with null, with the empty list and with a non-empty list have completed
C2_Witness ==
  /\ \E i \in DOMAIN calls : calls[i].extra.typeof = "null"
  /\ \E i \in DOMAIN calls : calls[i].extra.typeof = "array" /\ Len(calls[i].before) > 0
  /\ \E i \in DOMAIN calls : calls[i].caller = "caller"

\* C3: a call of the helper has no side effect: the list passed as extra, the
\* arrays of every descriptor returned earlier and every array of the sidebar
\* tree hold the same elements in the same order after the call, and the
\* earlier descriptors and the tree's root are the same values.
C3_NoSideEffects ==
  [][Len(calls') > Len(calls) =>
       /\ \A a \in DOMAIN heap : a \in DOMAIN heap' /\ heap'[a] = heap[a]
       /\ \A i \in DOMAIN calls : calls'[i] = calls[i]
       /\ sidebars' = sidebars
       /\ moduleExports' = moduleExports]_vars

\* after the tree was built, the helper was called with a non-empty list that
\* an earlier descriptor or the tree itself holds
C3_Witness ==
  /\ pc = "exported"
  /\ \E i \in DOMAIN calls :
       /\ calls[i].caller = "caller"
       /\ calls[i].extra.typeof = "array"
       /\ calls[i].extra.ref # 1
       /\ Len(calls[i].before) > 0
       /\ Returned(calls[i])

IsLeafReference(v) == v.typeof = "string"
IsCategory(v) ==
  /\ IsObject(v)
  /\ {"type", "label", "items"} \subseteq DOMAIN v
  /\ v.type = "category"
  /\ v.items \in DOMAIN heap
IsAutogenerated(v) ==
  /\ IsObject(v)
  /\ {"type", "dirName"} \subseteq DOMAIN v
  /\ v.type = "autogenerated"
  /\ "items" \notin DOMAIN v

\* the labels of the categories of one items list are pairwise different
SiblingLabelsUnique(a) ==
  \A i, j \in DOMAIN heap[a] :
    (i # j /\ IsCategory(heap[a][i]) /\ IsCategory(heap[a][j]))
      => heap[a][i].label # heap[a][j].label

\* C4: in the exported tree, no two categories of the same items list, at any
\* depth, carry the same label.
C4_SiblingLabelsUnique ==
  pc = "exported" =>
    \A a \in TreeArrays(heap, moduleExports) : SiblingLabelsUnique(a)

\* the whole tree is exported: its thirteen lists, one of them with seven categories
C4_Witness ==
  /\ pc = "exported"
  /\ Cardinality(TreeArrays(heap, moduleExports)) = 13
  /\ \E a \in TreeArrays(heap, moduleExports) :
       Cardinality({i \in DOMAIN heap[a] : IsCategory(heap[a][i])}) = 7

\* the tree as a consumer sees it: the exported root and the content of every list
ExportedTree == [root |-> moduleExports,
                 lists |-> [a \in TreeArrays(heap, moduleExports) |-> heap[a]]]

\* C5 as stated: once exported, no operation of the code or of a consumer
\* changes any node or list of the tree.
C5_ImmutableForEveryone ==
  [][pc = "exported" => ExportedTree' = ExportedTree]_vars

\* C5 amended: the tree is built once and no step of the module's own code
\* (its evaluation, its helper, a repeated require) changes it after the
\* export; only a write of a consumer through the exported reference does.
C5_ImmutableForModuleCode ==
  [][/\ (pc = "exported" /\ writes' = writes) => ExportedTree' = ExportedTree
     /\ sidebars.typeof = "object" => sidebars' = sidebars]_vars

\* a consumer holds the exported object and the helper ran on a list of the tree
C5_Witness ==
  /\ pc = "exported"
  /\ consumerRef = moduleExports
  /\ writes = 0
  /\ \E i \in DOMAIN calls :
       /\ calls[i].caller = "caller"
       /\ calls[i].extra.typeof = "array"
       /\ calls[i].extra.ref \in TreeArrays(heap, moduleExports)

\* a value is exactly one of: leaf reference, category, autogenerated placeholder
IsNode(v) ==
  \/ IsLeafReference(v) /\ ~IsCategory(v) /\ ~IsAutogenerated(v)
  \/ ~IsLeafReference(v) /\ IsCategory(v) /\ ~IsAutogenerated(v)
  \/ ~IsLeafReference(v) /\ ~IsCategory(v) /\ IsAutogenerated(v)
\* every element of the list a and of every list below it is a node
NodesBelow(a) ==
  \A b \in ReachableArrays(heap, a) : \A i \in DOMAIN heap[b] : IsNode(heap[b][i])

\* C7: every node of the exported tree, at every depth, is exactly one of a
\* leaf reference, a category with label and items, or an autogenerated
\* placeholder with a dirName and no children; so is every descriptor the
\* helper returns when the entries of extra are such nodes.
C7_NodeKinds ==
  /\ pc = "exported" => NodesBelow(moduleExports.docsSidebar)
  /\ \A i \in DOMAIN calls :
       LET c == calls[i] IN
       (/\ Returned(c) /\ ListOrAbsent(c)
        /\ \A k \in DOMAIN c.before : IsNode(c.before[k]))
         => IsNode(c.value) /\ IsCategory(c.value) /\ NodesBelow(c.value.items)

\* the tree is exported and the helper was given the docsSidebar list, whose
\* entries are categories
C7_Witness ==
  /\ pc = "exported"
  /\ \E i \in DOMAIN calls :
       /\ calls[i].caller = "caller"
       /\ Returned(calls[i])
       /\ calls[i].extra = ArrayRef(moduleExports.docsSidebar)
       /\ Cardinality(ReachableArrays(heap, calls[i].value.items)) = 13

\* C9: the link id of every returned descriptor is the dirName of its first
\* item followed by "/index", for any library name, the empty one included.
C9_LinkInsideDirectory ==
  \A i \in DOMAIN calls :
    LET c == calls[i] IN
    Returned(c) => c.value.link.id = heap[c.value.items][1].dirName \o "/index"

\* the helper returned for the empty name and for "openapi" with a list
C9_Witness ==
  /\ \E i \in DOMAIN calls : calls[i].libName = "" /\ Returned(calls[i])
  /\ \E i \in DOMAIN calls :
       calls[i].libName = "openapi" /\ Returned(calls[i]) /\ Len(calls[i].before) = 1

\* the positions <<list, index>> of the explicit leaves of the exported tree
LeafPositions ==
  {p \in UNION {{<<a, i>> : i \in DOMAIN heap[a]} : a \in TreeArrays(heap, moduleExports)} :
     IsLeafReference(heap[p[1]][p[2]])}
\* the directories of the autogenerated placeholders of the exported tree
AutogeneratedDirs ==
  {heap[p[1]][p[2]].dirName :
     p \in {q \in UNION {{<<a, i>> : i \in DOMAIN heap[a]} : a \in TreeArrays(heap, moduleExports)} :
              IsAutogenerated(heap[q[1]][q[2]])}}
LeafId(p) == heap[p[1]][p[2]].value

\* C10: no page is listed twice in the exported tree: no two explicit leaves
\* have the same id and no explicit leaf lies under the directory of an
\* autogenerated placeholder, the extra entries given to the helper included.
C10_NoPageListedTwice ==
  pc = "exported" =>
    /\ \A p, q \in LeafPositions : p # q => LeafId(p) # LeafId(q)
    /\ \A p \in LeafPositions : \A d \in AutogeneratedDirs :
         LeafId(p) # d /\ ~StartsWith(LeafId(p), d \o "/")

\* the exported tree holds its 41 leaves, the extra entry of "openapi" among
\* them, and its four autogenerated directories
C10_Witness ==
  /\ pc = "exported"
  /\ Cardinality(LeafPositions) = 41
  /\ \E p \in LeafPositions : LeafId(p) = "standard-library/openapi/diagnostics"
  /\ AutogeneratedDirs = {"standard-library/rest/reference", "standard-library/openapi/reference",
                          "compiler", "release-notes"}

====
